---- MODULE Spec2Model ----
(***************************************************************************)
(* A model of RawMemory<T> and Vector<T> of advanced-vector/vector.h.      *)
(*                                                                         *)
(* The heap is a table of blocks (Allocate/Deallocate); a block is the     *)
(* sequence of its slots, each holding either no object (raw memory) or    *)
(* the value of a constructed T.  A Vector is its data_ (a RawMemory: the  *)
(* block's id and capacity_) and its size_.  Every operation of Vector is  *)
(* one action, computed step by step as the code runs it, with the element *)
(* operations of T (construction, copy, move, assignment, destruction)     *)
(* acting on slots.  An element operation that may throw does so when the  *)
(* action's input f says so: f = 0 is the run without exception, f = k the *)
(* run in which the k-th potentially throwing element operation throws.    *)
(***************************************************************************)
EXTENDS Integers, Sequences, FiniteSets, TLC

\* ------------------------------------------------------------- bounds
\* element values 1..MaxVal (0 is the value of T())
MaxVal == 2
\* no operation is called that would take a capacity beyond MaxCap
MaxCap == 4
\* calls per behaviour
MaxSteps == 2
\* the Vectors a behaviour starts from hold at most InitLen elements in a
\* capacity of at most InitCap
InitLen == 2
InitCap == 3
\* calls of a run of PushBack from an empty Vector
GrowthSteps == 5
\* calls of a run of Resize
ResizeSteps == 3
LifetimeSteps == 3
SelfRefSteps == 2

Vecs == {1, 2}
Values == 1..MaxVal
\* a block id per Vector, one for a local new_data / rhs_copy, one per step
\* for blocks that are never released
BufIds == 1..(MaxSteps + 3)

\* ------------------------------------------------------------- slots
\* raw memory: no object lives in the slot
NoObj == -1
\* the value of an object that was moved from
Moved == -2
\* the value of T()
DefaultVal == 0
\* RawMemory's buffer_ when nothing is allocated
nullptr == 0

VARIABLES heap, vec, nothrowMove, lost, bad, steps, hist

vars == <<heap, vec, nothrowMove, lost, bad, steps, hist>>

\* RawMemory() = default
EmptyRaw == [buffer_ |-> nullptr, capacity_ |-> 0]

\* A Vector that is not constructed (before a constructor, after ~Vector).
NoVector == [alive |-> FALSE, data_ |-> EmptyRaw, size_ |-> 0]

\* Vector() = default
EmptyVector == [alive |-> TRUE, data_ |-> EmptyRaw, size_ |-> 0]

\* ------------------------------------------------ the running operation
\* The state an operation works on: the heap, the Vectors, the ghost
\* counters, the exception in flight (ex) and the countdown to the throw (f).
Start(f) ==
    [heap |-> heap, vec |-> vec, lost |-> lost, bad |-> bad,
     f |-> f, ex |-> "none", ticks |-> 0, new_data |-> EmptyRaw, copy_size |-> 0,
     ret |-> [buffer_ |-> nullptr, offset |-> 0]]

Ok(s) == s.ex = "none"

\* A potentially throwing element operation of kind "ctor" or "assign":
\* it throws when the countdown reaches it.
Tick(s, kind) ==
    IF s.f = 1 THEN [s EXCEPT !.ex = kind, !.f = 0, !.ticks = s.ticks + 1]
    ELSE [s EXCEPT !.f = IF s.f = 0 THEN 0 ELSE s.f - 1, !.ticks = s.ticks + 1]

\* The throws an operation can be asked for, given its run without one.
Throws(r) == 0..r.ticks

InBlock(h, b, k) == b # nullptr /\ k >= 0 /\ k < Len(h[b])

\* The value of the object in slot k of block b (NoObj if there is none).
Slot(h, b, k) == IF InBlock(h, b, k) THEN h[b][k + 1] ELSE NoObj

\* ------------------------------------------------------ RawMemory
FreshId(h) == CHOOSE b \in BufIds : h[b] = <<>> /\ \A c \in BufIds : c < b => h[c] # <<>>

\* RawMemory(capacity): Allocate(n) gives raw slots, nullptr for n = 0.
Allocate(s, n) ==
    IF n = 0 THEN [s EXCEPT !.new_data = EmptyRaw]
    ELSE LET b == FreshId(s.heap)
         IN [s EXCEPT !.heap[b] = [k \in 1..n |-> NoObj],
                      !.new_data = [buffer_ |-> b, capacity_ |-> n]]

NumObjs(blk) == Cardinality({k \in 1..Len(blk) : blk[k] # NoObj})

\* ~RawMemory: Deallocate(buffer_).  The objects still in the block are never
\* destroyed (lost); releasing a block twice is an error (bad).
Deallocate(s, b) ==
    IF b = nullptr THEN s
    ELSE IF s.heap[b] = <<>> THEN [s EXCEPT !.bad = TRUE]
    ELSE [s EXCEPT !.lost = s.lost + NumObjs(s.heap[b]), !.heap[b] = <<>>]

\* ------------------------------------------------ element operations
\* The slot written unconditionally; writing outside the block or
\* constructing over a live object is recorded.
PutObj(s, b, k, v) ==
    IF ~InBlock(s.heap, b, k) THEN [s EXCEPT !.bad = TRUE]
    ELSE [s EXCEPT !.heap[b][k + 1] = v,
                   !.lost = s.lost + (IF s.heap[b][k + 1] # NoObj THEN 1 ELSE 0)]

\* new (p) T(value), new (p) T(args...): may throw.
ConstructAt(s, b, k, v) ==
    IF ~Ok(s) THEN s
    ELSE LET t == Tick(s, "ctor")
         IN IF ~Ok(t) THEN t ELSE PutObj(t, b, k, v)

\* p->~T() on one slot, unconditionally.
DropObj(s, b, k) ==
    IF Slot(s.heap, b, k) = NoObj THEN [s EXCEPT !.bad = TRUE]
    ELSE [s EXCEPT !.heap[b][k + 1] = NoObj]

RECURSIVE DropRange(_, _, _, _)
DropRange(s, b, from, n) ==
    IF n = 0 THEN s ELSE DropRange(DropObj(s, b, from), b, from + 1, n - 1)

\* std::destroy_n(p, n)
destroy_n(s, b, from, n) == IF ~Ok(s) THEN s ELSE DropRange(s, b, from, n)

\* A copy that destroys its source as soon as the copy is made.
CopyAndDestroySource(s, db, dk, sb, sk) ==
    IF ~Ok(s) THEN s
    ELSE IF Slot(s.heap, sb, sk) = NoObj THEN [s EXCEPT !.bad = TRUE]
    ELSE LET t == ConstructAt(s, db, dk, Slot(s.heap, sb, sk))
         IN IF Ok(t) THEN DropObj(t, sb, sk) ELSE t

\* new (dst) T(src) with src an element: the copy constructor; may throw.
\* Reading a slot that holds no object is an error.
CopyConstructAt(s, db, dk, sb, sk) ==
    IF ~Ok(s) THEN s
    ELSE IF Slot(s.heap, sb, sk) = NoObj THEN [s EXCEPT !.bad = TRUE]
    ELSE ConstructAt(s, db, dk, Slot(s.heap, sb, sk))

\* The source is destroyed once its value has been taken.
RelocateAt(s, db, dk, sb, sk) ==
    IF ~Ok(s) THEN s
    ELSE IF Slot(s.heap, sb, sk) = NoObj THEN [s EXCEPT !.bad = TRUE]
    ELSE DropObj(PutObj(s, db, dk, Slot(s.heap, sb, sk)), sb, sk)

\* new (dst) T(std::move(src)) with src an element.  A T whose move
\* constructor is noexcept moves (the source is left moved-from); any other T
\* of this model has no move constructor, so the copy constructor is chosen.
MoveConstructAt(s, db, dk, sb, sk) ==
    IF ~Ok(s) THEN s
    ELSE IF Slot(s.heap, sb, sk) = NoObj THEN [s EXCEPT !.bad = TRUE]
    ELSE IF nothrowMove
    THEN LET t == PutObj(s, db, dk, Slot(s.heap, sb, sk))
         IN [t EXCEPT !.heap[sb][sk + 1] = Moved]
    ELSE CopyConstructAt(s, db, dk, sb, sk)

\* dst = value (copy assignment from a value): may throw; dst must be an object.
AssignAt(s, b, k, v) ==
    IF ~Ok(s) THEN s
    ELSE IF Slot(s.heap, b, k) = NoObj \/ v = NoObj THEN [s EXCEPT !.bad = TRUE]
    ELSE LET t == Tick(s, "assign")
         IN IF ~Ok(t) THEN t ELSE [t EXCEPT !.heap[b][k + 1] = v]

\* dst = std::move(src), both elements: noexcept move assignment, or the copy
\* assignment for a T without move operations.
MoveAssignAt(s, db, dk, sb, sk) ==
    IF ~Ok(s) THEN s
    ELSE IF Slot(s.heap, db, dk) = NoObj \/ Slot(s.heap, sb, sk) = NoObj
    THEN [s EXCEPT !.bad = TRUE]
    ELSE IF nothrowMove
    THEN IF db = sb /\ dk = sk THEN s
         ELSE [s EXCEPT !.heap[db][dk + 1] = Slot(s.heap, sb, sk),
                        !.heap[sb][sk + 1] = Moved]
    ELSE AssignAt(s, db, dk, Slot(s.heap, sb, sk))

\* dst = std::move(temp) with temp a local object of value v.
MoveAssignValue(s, b, k, v) ==
    IF ~Ok(s) THEN s
    ELSE IF nothrowMove
    THEN IF Slot(s.heap, b, k) = NoObj THEN [s EXCEPT !.bad = TRUE]
         ELSE [s EXCEPT !.heap[b][k + 1] = v]
    ELSE AssignAt(s, b, k, v)

\* ------------------------------------------------ <memory>, <algorithm>
\* std::uninitialized_copy_n(src, n, dst): copies one by one; when a copy
\* throws, the copies already made are destroyed and the exception goes on.
RECURSIVE CopyLoop(_, _, _, _, _, _, _)
CopyLoop(s, sb, so, n, db, do, k) ==
    IF k = n THEN s
    ELSE LET t == CopyConstructAt(s, db, do + k, sb, so + k)
         IN IF Ok(t) THEN CopyLoop(t, sb, so, n, db, do, k + 1)
            ELSE DropRange(t, db, do, k)

uninitialized_copy_n(s, sb, so, n, db, do) ==
    IF ~Ok(s) THEN s ELSE CopyLoop(s, sb, so, n, db, do, 0)

\* std::uninitialized_move_n(src, n, dst)
RECURSIVE MoveLoop(_, _, _, _, _, _, _)
MoveLoop(s, sb, so, n, db, do, k) ==
    IF k = n THEN s
    ELSE LET t == MoveConstructAt(s, db, do + k, sb, so + k)
         IN IF Ok(t) THEN MoveLoop(t, sb, so, n, db, do, k + 1)
            ELSE DropRange(t, db, do, k)

uninitialized_move_n(s, sb, so, n, db, do) ==
    IF ~Ok(s) THEN s ELSE MoveLoop(s, sb, so, n, db, do, 0)

\* std::uninitialized_value_construct_n(dst, n): T() in each slot, with the
\* same rollback.
RECURSIVE ValueLoop(_, _, _, _, _)
ValueLoop(s, b, off, n, k) ==
    IF k = n THEN s
    ELSE LET t == ConstructAt(s, b, off + k, DefaultVal)
         IN IF Ok(t) THEN ValueLoop(t, b, off, n, k + 1)
            ELSE DropRange(t, b, off, k)

\* The new objects built from the start of the block, not from the offset.
ValueConstructFromStart(s, b, off, n) ==
    IF ~Ok(s) THEN s ELSE ValueLoop(s, b, 0, n, 0)

uninitialized_value_construct_n(s, b, off, n) ==
    IF ~Ok(s) THEN s ELSE ValueLoop(s, b, off, n, 0)

\* std::move(first, last, d_first) inside block b: forward, by move assignment.
RECURSIVE move_range(_, _, _, _, _)
move_range(s, b, first, lastx, d_first) ==
    IF ~Ok(s) \/ first >= lastx THEN s
    ELSE move_range(MoveAssignAt(s, b, d_first, b, first), b, first + 1, lastx, d_first + 1)

\* The overlapping range shifted right from the front.
ShiftFromFront(s, b, first, lastx, d_last) ==
    move_range(s, b, first, lastx, d_last - (lastx - first))

\* std::move_backward(first, last, d_last) inside block b: from the back.
RECURSIVE move_backward(_, _, _, _, _)
move_backward(s, b, first, lastx, d_last) ==
    IF ~Ok(s) \/ first >= lastx THEN s
    ELSE move_backward(MoveAssignAt(s, b, d_last - 1, b, lastx - 1), b, first, lastx - 1, d_last - 1)

\* if constexpr (is_nothrow_move_constructible_v<T> || !is_copy_constructible_v<T>)
\* uninitialized_move_n, else uninitialized_copy_n.  T is copy constructible.
Transfer(s, sb, so, n, db, do) ==
    IF nothrowMove THEN uninitialized_move_n(s, sb, so, n, db, do)
    ELSE uninitialized_copy_n(s, sb, so, n, db, do)

\* ------------------------------------------------------ Vector, step by step
\* data_.Swap(new_data): RawMemory::Swap, noexcept.
SwapNewData(s, i) ==
    IF ~Ok(s) THEN s
    ELSE [s EXCEPT !.vec[i].data_ = s.new_data, !.new_data = s.vec[i].data_]

\* The local RawMemory new_data leaves its scope (also while unwinding).
DropNewData(s) == [Deallocate(s, s.new_data.buffer_) EXCEPT !.new_data = EmptyRaw]

\* new (new_data + k) T(...): T's constructor may throw; a noexcept move
\* constructor (throwing = FALSE) does not.
ConstructInNew(s, k, v, throwing) ==
    IF throwing THEN ConstructAt(s, s.new_data.buffer_, k, v)
    ELSE PutObj(s, s.new_data.buffer_, k, v)

\* new (data_ + k) T(...)
ConstructInData(s, i, k, v, throwing) ==
    IF throwing THEN ConstructAt(s, s.vec[i].data_.buffer_, k, v)
    ELSE PutObj(s, s.vec[i].data_.buffer_, k, v)

\* The n elements from data_ + so transferred to new_data + do.
TransferToNew(s, i, so, n, do) ==
    Transfer(s, s.vec[i].data_.buffer_, so, n, s.new_data.buffer_, do)

\* std::destroy_n(data_.GetAddress(), size_); data_.Swap(new_data); and
\* new_data, holding the old buffer, leaves its scope.
ReplaceData(s, i) ==
    DropNewData(SwapNewData(destroy_n(s, s.vec[i].data_.buffer_, 0, s.vec[i].size_), i))

\* size_ set before the element is in place: the exception leaves it set.
SetSizeBeforeConstruct(s, i, n) == [s EXCEPT !.vec[i].size_ = n]

\* size_ = n, reached only when no exception is in flight.
SetSize(s, i, n) == IF ~Ok(s) THEN s ELSE [s EXCEPT !.vec[i].size_ = n]

\* return p: the iterator an operation hands back, when it returns at all.
Return(s, b, k) == IF ~Ok(s) THEN s ELSE [s EXCEPT !.ret = [buffer_ |-> b, offset |-> k]]

\* return data_ + k
ReturnAt(s, i, k) == Return(s, s.vec[i].data_.buffer_, k)

\* Growth by one slot instead of doubling.
GrowByOne(size) == size + 1

\* The new capacity of a full Vector that grows by one element.
GrowCapacity(size) == IF size = 0 THEN 1 ELSE size * 2

\* The growth path of PushBack/EmplaceBack: the new element is built first in
\* slot size_ of new_data, then the elements are transferred.
AppendGrow(s0, i, v, throwing) ==
    LET size == s0.vec[i].size_
        s1 == Allocate(s0, GrowCapacity(size))
        s2 == ConstructInNew(s1, size, v, throwing)
        s3 == TransferToNew(s2, i, 0, size, 0)
    IN ReplaceData(s3, i)

\* PushBack(const T&), EmplaceBack(args...): T's constructor may throw.
\* PushBack(T&&): the move constructor, which throws only when it is a copy.
AppendOne(s0, i, v, throwing) ==
    LET size == s0.vec[i].size_
        s1 == IF size = s0.vec[i].data_.capacity_ THEN AppendGrow(s0, i, v, throwing)
              ELSE ConstructInData(s0, i, size, v, throwing)
    IN ReturnAt(SetSize(s1, i, size + 1), i, size)

\* Reserve that also gives storage back, down to the size.
ReserveToFit(s0, i, new_capacity) ==
    IF new_capacity = s0.vec[i].data_.capacity_ \/ new_capacity < s0.vec[i].size_ THEN s0
    ELSE ReplaceData(TransferToNew(Allocate(s0, new_capacity), i, 0, s0.vec[i].size_, 0), i)

\* Reserve that reallocates also when new_capacity == Capacity().
ReserveWhenEqual(s0, i, new_capacity) ==
    LET d == s0.vec[i].data_
        size == s0.vec[i].size_
    IN IF new_capacity < d.capacity_ THEN s0
       ELSE ReplaceData(TransferToNew(Allocate(s0, new_capacity), i, 0, size, 0), i)

\* Vector::Reserve
ReserveOp(s0, i, new_capacity) ==
    LET d == s0.vec[i].data_
        size == s0.vec[i].size_
    IN IF new_capacity <= d.capacity_ THEN s0
       ELSE ReplaceData(TransferToNew(Allocate(s0, new_capacity), i, 0, size, 0), i)

\* std::uninitialized_value_construct_n(data_ + off, n)
ValueConstructInData(s, i, off, n) ==
    uninitialized_value_construct_n(s, s.vec[i].data_.buffer_, off, n)

\* size_ set before the new elements are constructed.
ResizeSizeFirst(s0, i, new_size) ==
    LET d == s0.vec[i].data_
        size == s0.vec[i].size_
    IN IF new_size <= size
       THEN SetSize(destroy_n(s0, d.buffer_, new_size, size - new_size), i, new_size)
       ELSE ValueConstructInData(SetSize(ReserveOp(s0, i, new_size), i, new_size),
                                 i, size, new_size - size)

\* Vector::Resize
ResizeOp(s0, i, new_size) ==
    LET d == s0.vec[i].data_
        size == s0.vec[i].size_
    IN IF new_size <= size
       THEN SetSize(destroy_n(s0, d.buffer_, new_size, size - new_size), i, new_size)
       ELSE SetSize(ValueConstructInData(ReserveOp(s0, i, new_size),
                                         i, size, new_size - size), i, new_size)

\* Vector::PopBack
PopBackOp(s0, i) ==
    LET size == s0.vec[i].size_
    IN SetSize(destroy_n(s0, s0.vec[i].data_.buffer_, size - 1, 1), i, size - 1)

\* The last element is dropped without the shift.
EraseWithoutShift(s0, i, pos) ==
    Return(PopBackOp(s0, i), s0.vec[i].data_.buffer_, pos)

\* Vector::Erase
EraseOp(s0, i, pos) ==
    LET b == s0.vec[i].data_.buffer_
        size == s0.vec[i].size_
        s1 == move_range(s0, b, pos + 1, size, pos)
        s2 == destroy_n(s1, b, size - 1, 1)
    IN Return(SetSize(s2, i, size - 1), b, pos)

\* try { the elements before pos transferred to new_data }
\* catch (...) { std::destroy_n(new_data + new_item_offset, 1); throw; }
TransferBefore(s, i, pos) ==
    LET t == TransferToNew(s, i, 0, pos, 0)
    IN IF Ok(s) /\ ~Ok(t) THEN DropRange(t, s.new_data.buffer_, pos, 1) ELSE t

\* try { the elements from pos on transferred to new_data + pos + 1 }
\* catch (...) { std::destroy_n(new_data.GetAddress(), new_item_offset); throw; }
TransferAfter(s, i, pos, size) ==
    LET t == TransferToNew(s, i, pos, size - pos, pos + 1)
    IN IF Ok(s) /\ ~Ok(t) THEN DropRange(t, s.new_data.buffer_, 0, pos) ELSE t

\* Vector::Emplace, size_ == Capacity(): the new element is built in slot
\* new_item_offset of new_data, then the elements before and the elements
\* after are transferred, each in its try block.
EmplaceGrow(s0, i, pos, v, throwing) ==
    LET size == s0.vec[i].size_
        s1 == Allocate(s0, GrowCapacity(size))
        s2 == ConstructInNew(s1, pos, v, throwing)
        s3 == TransferBefore(s2, i, pos)
        s4 == TransferAfter(s3, i, pos, size)
    IN ReplaceData(s4, i)

\* Vector::Emplace, size_ < Capacity(), pos != cend(): temp, the last element
\* moved into slot size_, move_backward, data_[new_item_offset] = move(temp).
EmplaceShift(s0, i, pos, v, throwing) ==
    LET b == s0.vec[i].data_.buffer_
        size == s0.vec[i].size_
        s1 == IF throwing THEN Tick(s0, "ctor") ELSE s0
        s2 == MoveConstructAt(s1, b, size, b, size - 1)
        s3 == move_backward(s2, b, pos, size - 1, size)
    IN MoveAssignValue(s3, b, pos, v)

\* Vector::Emplace; Insert(pos, value) is Emplace(pos, value).
EmplaceOp(s0, i, pos, v, throwing) ==
    LET size == s0.vec[i].size_
        new_size == size + 1
        s1 == IF size = s0.vec[i].data_.capacity_ THEN EmplaceGrow(s0, i, pos, v, throwing)
              ELSE IF pos = size THEN ConstructInData(s0, i, size, v, throwing)
              ELSE EmplaceShift(s0, i, pos, v, throwing)
    IN ReturnAt(SetSize(s1, i, new_size), i, pos)

\* ------------------------------------ the value is an element of the Vector
\* PushBack(const T& value) and Insert(pos, const T& value) with value a
\* reference to element j of the same Vector: the reference is the slot j of
\* the buffer the Vector has when the call starts, read where the code reads it.
\* new (new_data + k) T(value)
ConstructInNewFrom(s, k, i, j) ==
    CopyConstructAt(s, s.new_data.buffer_, k, s.vec[i].data_.buffer_, j)

\* new (data_ + k) T(value)
ConstructInDataFrom(s, i, k, j) ==
    CopyConstructAt(s, s.vec[i].data_.buffer_, k, s.vec[i].data_.buffer_, j)

\* PushBack(const T& value), value being data_[j].
AppendRefOp(s0, i, j) ==
    LET size == s0.vec[i].size_
        s1 == IF size = s0.vec[i].data_.capacity_
              THEN ReplaceData(
                       TransferToNew(
                           ConstructInNewFrom(Allocate(s0, GrowCapacity(size)), size, i, j),
                           i, 0, size, 0), i)
              ELSE ConstructInDataFrom(s0, i, size, j)
    IN ReturnAt(SetSize(s1, i, size + 1), i, size)

\* The element is assigned from the reference once the others are shifted,
\* without a temporary.
AssignFromReference(s0, i, pos, j) ==
    LET b == s0.vec[i].data_.buffer_
        size == s0.vec[i].size_
        s3 == move_backward(MoveConstructAt(s0, b, size, b, size - 1), b, pos, size - 1, size)
    IN AssignAt(s3, b, pos, Slot(s3.heap, b, j))

\* Emplace with room left and pos before the end: T&& temp = T(value) copies
\* data_[j] before any element is moved.
EmplaceShiftRef(s0, i, pos, j) ==
    EmplaceShift(s0, i, pos, Slot(s0.heap, s0.vec[i].data_.buffer_, j), TRUE)

\* Insert(pos, const T& value), value being data_[j].
EmplaceRefOp(s0, i, pos, j) ==
    LET size == s0.vec[i].size_
        s1 == IF size = s0.vec[i].data_.capacity_
              THEN ReplaceData(
                       TransferAfter(
                           TransferBefore(
                               ConstructInNewFrom(Allocate(s0, GrowCapacity(size)), pos, i, j),
                               i, pos),
                           i, pos, size), i)
              ELSE IF pos = size THEN ConstructInDataFrom(s0, i, size, j)
              ELSE EmplaceShiftRef(s0, i, pos, j)
    IN ReturnAt(SetSize(s1, i, size + 1), i, pos)

\* The buffer of a Vector whose constructor threw is not released.
ConstructedOrLeaked(s, i, size) ==
    IF Ok(s)
    THEN [s EXCEPT !.vec[i] = [alive |-> TRUE, data_ |-> s.new_data, size_ |-> size],
                   !.new_data = EmptyRaw]
    ELSE s

\* A constructor's members are in place: the Vector exists.  When the body
\* threw, the member data_ (held in new_data) is destructed instead.
Constructed(s, i, size) ==
    IF Ok(s)
    THEN [s EXCEPT !.vec[i] = [alive |-> TRUE, data_ |-> s.new_data, size_ |-> size],
                   !.new_data = EmptyRaw]
    ELSE DropNewData(s)

\* std::uninitialized_value_construct_n(data_.GetAddress(), n), data_ being
\* the member under construction.
ValueConstructInNew(s, n) ==
    uninitialized_value_construct_n(s, s.new_data.buffer_, 0, n)

\* std::uninitialized_copy_n(other.data_.GetAddress(), n, data_.GetAddress()),
\* data_ being the member under construction.
CopyToNew(s, other, n) ==
    uninitialized_copy_n(s, s.vec[other].data_.buffer_, 0, n, s.new_data.buffer_, 0)

\* Vector(size_t size)
ConstructNOp(s0, i, size) ==
    Constructed(ValueConstructInNew(Allocate(s0, size), size), i, size)

\* A copy that shares the source's buffer.
ShallowCopyConstruct(s0, i, other) ==
    [s0 EXCEPT !.vec[i] = s0.vec[other]]

\* Vector(const Vector& other)
CopyConstructOp(s0, i, other) ==
    LET n == s0.vec[other].size_
    IN Constructed(CopyToNew(Allocate(s0, n), other, n), i, n)

\* The pointer and capacity copied, the source not reset.
RawMoveKeepsSource(v, i, other) ==
    [v EXCEPT ![i].data_ = v[other].data_]

\* RawMemory(RawMemory&&) and RawMemory::operator=(RawMemory&&): both are
\* buffer_ = exchange(other.buffer_, nullptr); capacity_ = exchange(other.capacity_, 0).
RawMove(v, i, other) ==
    LET b == v[other].data_.buffer_
        c == v[other].data_.capacity_
        v1 == [[v EXCEPT ![other].data_.buffer_ = nullptr] EXCEPT ![i].data_.buffer_ = b]
    IN [[v1 EXCEPT ![other].data_.capacity_ = 0] EXCEPT ![i].data_.capacity_ = c]

\* size_ = std::exchange(other.size_, 0)
SizeExchange(v, i, other) ==
    LET n == v[other].size_
    IN [[v EXCEPT ![other].size_ = 0] EXCEPT ![i].size_ = n]

\* Vector(Vector&& other) noexcept
MoveConstructOp(s0, i, other) ==
    LET v0 == [s0.vec EXCEPT ![i] = EmptyVector]
    IN [s0 EXCEPT !.vec = SizeExchange(RawMove(v0, i, other), i, other)]

\* Vector::operator=(Vector&& rhs) noexcept
MoveAssignOp(s0, i, rhs) ==
    [s0 EXCEPT !.vec = SizeExchange(RawMove(s0.vec, i, rhs), i, rhs)]

\* ~Vector: destroy_n(data_, size_), then ~RawMemory.
DestroyOp(s0, i) ==
    LET d == s0.vec[i].data_
        s1 == DropRange(s0, d.buffer_, 0, s0.vec[i].size_)
    IN [Deallocate(s1, d.buffer_) EXCEPT !.vec[i] = NoVector]

\* Vector::Swap
SwapOp(s0, i, other) ==
    [s0 EXCEPT !.vec = [[s0.vec EXCEPT ![i] = s0.vec[other]] EXCEPT ![other] = s0.vec[i]]]

\* The common prefix is left as it is.
AssignNothing(s, db, sb, n, k) == s

\* for (i = 0; i < n; ++i) data_[i] = rhs.data_[i];
RECURSIVE AssignLoop(_, _, _, _, _)
AssignLoop(s, db, sb, n, k) ==
    IF ~Ok(s) \/ k >= n THEN s
    ELSE AssignLoop(AssignAt(s, db, k, Slot(s.heap, sb, k)), db, sb, n, k + 1)

\* Swap(rhs_copy): rhs_copy, held in new_data with its size in copy_size,
\* exchanges data_ and size_ with the Vector.  Not reached after a throw.
SwapCopy(s, i, n, old_size) ==
    IF ~Ok(s) THEN s
    ELSE [s EXCEPT !.vec[i].data_ = s.new_data, !.vec[i].size_ = n,
                   !.new_data = s.vec[i].data_, !.copy_size = old_size]

\* ~Vector of rhs_copy; after a throw in its constructor only its member
\* data_ is destructed.
DestroyCopy(s) ==
    DropNewData(IF Ok(s) THEN DropRange(s, s.new_data.buffer_, 0, s.copy_size) ELSE s)

\* Vector::operator=(const Vector& rhs), rhs.size_ > data_.Capacity():
\* Vector rhs_copy(rhs); Swap(rhs_copy); then rhs_copy is destructed.
CopyAndSwap(s0, i, rhs) ==
    LET n == s0.vec[rhs].size_
    IN DestroyCopy(SwapCopy(CopyToNew(Allocate(s0, n), rhs, n), i, n, s0.vec[i].size_))

\* Vector::operator=(const Vector& rhs), the buffer is reused.
CopyInPlace(s0, i, rhs) ==
    LET r == s0.vec[rhs]
        d == s0.vec[i].data_
        size == s0.vec[i].size_
        s1 == IF r.size_ < size
              THEN destroy_n(AssignLoop(s0, d.buffer_, r.data_.buffer_, r.size_, 0),
                             d.buffer_, r.size_, size - r.size_)
              ELSE uninitialized_copy_n(
                       AssignLoop(s0, d.buffer_, r.data_.buffer_, size, 0),
                       r.data_.buffer_, size, r.size_ - size, d.buffer_, size)
    IN SetSize(s1, i, r.size_)

\* Vector::operator=(const Vector& rhs)
CopyAssignOp(s0, i, rhs) ==
    IF i = rhs THEN s0
    ELSE IF s0.vec[rhs].size_ > s0.vec[i].data_.capacity_ THEN CopyAndSwap(s0, i, rhs)
    ELSE CopyInPlace(s0, i, rhs)

\* ------------------------------------------------------------ observers
\* Size(), Capacity()
Size(i) == vec[i].size_
Capacity(i) == vec[i].data_.capacity_

\* The elements [0, size) of a Vector, as operator[] reads them.
ElemsOf(h, vc) == [k \in 1..vc.size_ |-> Slot(h, vc.data_.buffer_, k - 1)]
Elems(i) == ElemsOf(heap, vec[i])

Snapshot(i) ==
    [alive |-> vec[i].alive, buffer |-> vec[i].data_.buffer_, size |-> Size(i),
     capacity |-> Capacity(i), elems |-> Elems(i)]

\* The blocks allocated and not released.
Allocated == {b \in BufIds : heap[b] # <<>>}

\* The blocks no Vector owns: allocated, and the data_ of no Vector.
Orphans ==
    {b \in Allocated : ~\E i \in Vecs : vec[i].alive /\ vec[i].data_.buffer_ = b}

\* The slots <<block, offset>> holding an object that is no element of a
\* Vector: not in [0, size) of the Vector whose data_ is the block.
StrayObjs ==
    UNION {{<<b, k>> : k \in {j \in 0..(Len(heap[b]) - 1) :
                /\ heap[b][j + 1] # NoObj
                /\ ~\E i \in Vecs : /\ vec[i].alive
                                    /\ vec[i].data_.buffer_ = b
                                    /\ j < vec[i].size_}} : b \in BufIds}

\* ------------------------------------------------------------ actions
\* A call: the operation, its arguments, how it ended (threw: "none", or the
\* kind of element operation that threw, the f-th potentially throwing one),
\* what it returned, and what the Vectors and the heap held before it.
\* hist keeps the latest calls, newest first.
Call(name, i) ==
    [op |-> name, i |-> i, other |-> 0, pos |-> 0, val |-> 0, n |-> 0,
     threw |-> "none", f |-> 0, ret |-> [buffer_ |-> nullptr, offset |-> 0],
     pre |-> [j \in Vecs |-> Snapshot(j)],
     lost |-> lost, blocks |-> Allocated, orphans |-> Orphans, strays |-> StrayObjs]

Recent(h) == IF Len(h) > 3 THEN SubSeq(h, 1, 3) ELSE h

\* The operation has run (to its end or to its throw): its effects are the
\* next state.
Commit(r, rec) ==
    /\ heap' = r.heap
    /\ vec' = r.vec
    /\ lost' = r.lost
    /\ bad' = r.bad
    /\ steps' = steps - 1
    /\ hist' = Recent(<<[rec EXCEPT !.threw = r.ex, !.ret = r.ret,
                                   !.f = IF r.ex = "none" THEN 0 ELSE r.ticks]>> \o hist)
    /\ UNCHANGED nothrowMove

Live(i) == vec[i].alive /\ steps > 0

PushBack(i, v) ==
    /\ Live(i)
    /\ \E f \in Throws(AppendOne(Start(0), i, v, TRUE)) :
         Commit(AppendOne(Start(f), i, v, TRUE), [Call("PushBack", i) EXCEPT !.val = v])

PushBackMove(i, v) ==
    /\ Live(i)
    /\ \E f \in Throws(AppendOne(Start(0), i, v, ~nothrowMove)) :
         Commit(AppendOne(Start(f), i, v, ~nothrowMove),
                [Call("PushBackMove", i) EXCEPT !.val = v])

EmplaceBack(i, v) ==
    /\ Live(i)
    /\ \E f \in Throws(AppendOne(Start(0), i, v, TRUE)) :
         Commit(AppendOne(Start(f), i, v, TRUE),
                [Call("EmplaceBack", i) EXCEPT !.val = v])

PopBack(i) ==
    /\ Live(i) /\ Size(i) > 0
    /\ Commit(PopBackOp(Start(0), i), Call("PopBack", i))

Erase(i, pos) ==
    /\ Live(i) /\ pos \in 0..(Size(i) - 1)
    /\ \E f \in Throws(EraseOp(Start(0), i, pos)) :
         Commit(EraseOp(Start(f), i, pos),
                [Call("Erase", i) EXCEPT !.pos = pos])

\* Emplace(pos, args...); Insert(pos, const T& value) is this call with value.
Emplace(i, pos, v) ==
    /\ Live(i) /\ pos \in 0..Size(i)
    /\ \E f \in Throws(EmplaceOp(Start(0), i, pos, v, TRUE)) :
         Commit(EmplaceOp(Start(f), i, pos, v, TRUE),
                [Call("Emplace", i) EXCEPT !.pos = pos, !.val = v])

\* Insert(pos, T&& value): Emplace(pos, std::forward<T>(value)).
InsertMove(i, pos, v) ==
    /\ Live(i) /\ pos \in 0..Size(i)
    /\ \E f \in Throws(EmplaceOp(Start(0), i, pos, v, ~nothrowMove)) :
         Commit(EmplaceOp(Start(f), i, pos, v, ~nothrowMove),
                [Call("InsertMove", i) EXCEPT !.pos = pos, !.val = v])

\* v.PushBack(v[j])
PushBackRef(i, j) ==
    /\ Live(i) /\ j \in 0..(Size(i) - 1)
    /\ \E f \in Throws(AppendRefOp(Start(0), i, j)) :
         Commit(AppendRefOp(Start(f), i, j),
                [Call("PushBackRef", i) EXCEPT !.pos = Size(i), !.n = j])

\* v.Insert(v.begin() + pos, v[j])
InsertRef(i, pos, j) ==
    /\ Live(i) /\ pos \in 0..Size(i) /\ j \in 0..(Size(i) - 1)
    /\ \E f \in Throws(EmplaceRefOp(Start(0), i, pos, j)) :
         Commit(EmplaceRefOp(Start(f), i, pos, j),
                [Call("InsertRef", i) EXCEPT !.pos = pos, !.n = j])

Reserve(i, n) ==
    /\ Live(i)
    /\ \E f \in Throws(ReserveOp(Start(0), i, n)) :
         Commit(ReserveOp(Start(f), i, n), [Call("Reserve", i) EXCEPT !.n = n])

Resize(i, n) ==
    /\ Live(i)
    /\ \E f \in Throws(ResizeOp(Start(0), i, n)) :
         Commit(ResizeOp(Start(f), i, n), [Call("Resize", i) EXCEPT !.n = n])

DefaultConstruct(i) ==
    /\ ~vec[i].alive /\ steps > 0
    /\ Commit([Start(0) EXCEPT !.vec[i] = EmptyVector], Call("Vector", i))

ConstructN(i, n) ==
    /\ ~vec[i].alive /\ steps > 0
    /\ \E f \in Throws(ConstructNOp(Start(0), i, n)) :
         Commit(ConstructNOp(Start(f), i, n), [Call("VectorN", i) EXCEPT !.n = n])

CopyConstruct(i, other) ==
    /\ ~vec[i].alive /\ steps > 0 /\ vec[other].alive
    /\ \E f \in Throws(CopyConstructOp(Start(0), i, other)) :
         Commit(CopyConstructOp(Start(f), i, other),
                [Call("CopyConstruct", i) EXCEPT !.other = other])

MoveConstruct(i, other) ==
    /\ ~vec[i].alive /\ steps > 0 /\ vec[other].alive
    /\ Commit(MoveConstructOp(Start(0), i, other),
              [Call("MoveConstruct", i) EXCEPT !.other = other])

CopyAssign(i, rhs) ==
    /\ Live(i) /\ vec[rhs].alive
    /\ \E f \in Throws(CopyAssignOp(Start(0), i, rhs)) :
         Commit(CopyAssignOp(Start(f), i, rhs),
                [Call("CopyAssign", i) EXCEPT !.other = rhs])

MoveAssign(i, rhs) ==
    /\ Live(i) /\ vec[rhs].alive
    /\ Commit(MoveAssignOp(Start(0), i, rhs),
              [Call("MoveAssign", i) EXCEPT !.other = rhs])

Swap(i, other) ==
    /\ Live(i) /\ vec[other].alive
    /\ Commit(SwapOp(Start(0), i, other), [Call("Swap", i) EXCEPT !.other = other])

Destroy(i) ==
    /\ Live(i)
    /\ Commit(DestroyOp(Start(0), i), Call("Destroy", i))

\* The Vector the element operations are called on; the other Vector takes
\* part in construction, assignment, Swap and destruction.
Mutated == {1}

RECURSIVE SeqsUpTo(_, _)
SeqsUpTo(S, n) ==
    IF n = 0 THEN {<<>>}
    ELSE LET shorter == SeqsUpTo(S, n - 1)
         IN shorter \cup {Append(q, x) : q \in {r \in shorter : Len(r) = n - 1}, x \in S}

\* A block of cap slots whose first slots hold the elements.
BlockOf(elems, cap) == [k \in 1..cap |-> IF k <= Len(elems) THEN elems[k] ELSE NoObj]

\* Vector i holding elems in a buffer of cap slots, its block being block i:
\* the state Vector(), Reserve(cap) and a PushBack of each element lead to.
VectorOf(i, elems, cap) ==
    [alive |-> TRUE,
     data_ |-> [buffer_ |-> IF cap = 0 THEN nullptr ELSE i, capacity_ |-> cap],
     size_ |-> Len(elems)]

\* Behaviours start with Vector 1 holding any of the sequences E1 in any
\* capacity up to InitCap, and Vector 2 either not constructed yet or holding
\* the one element MaxVal.
InitFrom(E1, n) ==
    /\ \E e1 \in E1, e2 \in {<<>>, <<MaxVal>>} :
         \E c1 \in Len(e1)..InitCap :
            /\ vec = [i \in Vecs |-> IF i = 1 THEN VectorOf(1, e1, c1)
                                     ELSE IF e2 # <<>> THEN VectorOf(2, e2, Len(e2))
                                     ELSE NoVector]
            /\ heap = [b \in BufIds |-> IF b = 1 THEN BlockOf(e1, c1)
                                        ELSE IF b = 2 THEN BlockOf(e2, Len(e2))
                                        ELSE <<>>]
    /\ nothrowMove \in BOOLEAN
    /\ lost = 0
    /\ bad = FALSE
    /\ steps = n
    /\ hist = <<>>

Init == InitFrom(SeqsUpTo(Values, InitLen), MaxSteps)

Next ==
    \/ \E i \in Mutated, v \in Values : PushBack(i, v)
    \/ \E i \in Mutated, v \in Values : PushBackMove(i, v)
    \/ \E i \in Mutated, v \in Values : EmplaceBack(i, v)
    \/ \E i \in Mutated : PopBack(i)
    \/ \E i \in Mutated, pos \in 0..(2 * MaxCap) : Erase(i, pos)
    \/ \E i \in Mutated, pos \in 0..(2 * MaxCap), v \in Values : Emplace(i, pos, v)
    \/ \E i \in Mutated, pos \in 0..(2 * MaxCap), v \in Values : InsertMove(i, pos, v)
    \/ \E i \in Mutated, n \in 0..MaxCap : Reserve(i, n)
    \/ \E i \in Mutated, n \in 0..MaxCap : Resize(i, n)
    \/ \E i \in Vecs : DefaultConstruct(i)
    \/ \E i \in Vecs, n \in 0..MaxCap : ConstructN(i, n)
    \/ \E i \in Vecs, other \in Vecs : CopyConstruct(i, other)
    \/ \E i \in Vecs, other \in Vecs : MoveConstruct(i, other)
    \/ \E i \in Vecs, rhs \in Vecs : CopyAssign(i, rhs)
    \/ \E i \in Vecs, rhs \in Vecs : MoveAssign(i, rhs)
    \/ \E i \in Vecs, other \in Vecs : Swap(i, other)
    \/ \E i \in Vecs : Destroy(i)

Spec == Init /\ [][Next]_vars

\* A run of PushBack on a default-constructed Vector.
InitGrowth ==
    /\ vec = [i \in Vecs |-> IF i = 1 THEN EmptyVector ELSE NoVector]
    /\ heap = [b \in BufIds |-> <<>>]
    /\ nothrowMove \in BOOLEAN
    /\ lost = 0
    /\ bad = FALSE
    /\ steps = GrowthSteps
    /\ hist = <<>>

NextGrowth ==
    \/ \E v \in Values : PushBack(1, v)
    \/ \E v \in Values : PushBackMove(1, v)

SpecGrowth == InitGrowth /\ [][NextGrowth]_vars

\* A run of Resize on a Vector.
InitResize == InitFrom(SeqsUpTo(Values, InitLen), ResizeSteps)

NextResize == \E n \in 0..MaxCap : Resize(1, n)

SpecResize == InitResize /\ [][NextResize]_vars

\* Whole lifetimes: Vectors are constructed, filled, copied, moved, swapped
\* and destroyed.
InitLifetime == InitFrom(SeqsUpTo(Values, InitLen), LifetimeSteps)

NextLifetime ==
    \/ \E v \in Values : PushBack(1, v)
    \/ \E i \in Vecs : DefaultConstruct(i)
    \/ \E i \in Vecs, n \in 0..MaxCap : ConstructN(i, n)
    \/ \E i \in Vecs, other \in Vecs : CopyConstruct(i, other)
    \/ \E i \in Vecs, other \in Vecs : MoveConstruct(i, other)
    \/ \E i \in Vecs, rhs \in Vecs : CopyAssign(i, rhs)
    \/ \E i \in Vecs, rhs \in Vecs : MoveAssign(i, rhs)
    \/ \E i \in Vecs, other \in Vecs : Swap(i, other)
    \/ \E i \in Vecs : Destroy(i)

SpecLifetime == InitLifetime /\ [][NextLifetime]_vars

\* Elements of a Vector passed by reference to its own PushBack and Insert.
InitSelfRef == InitFrom(SeqsUpTo(Values, InitLen), SelfRefSteps)

NextSelfRef ==
    \/ \E j \in 0..MaxCap : PushBackRef(1, j)
    \/ \E pos \in 0..MaxCap, j \in 0..MaxCap : InsertRef(1, pos, j)

SpecSelfRef == InitSelfRef /\ [][NextSelfRef]_vars

\* ------------------------------------------------------------ claims
\* The latest call is one of ops / is one of ops and did not throw.
Called(ops) == hist # <<>> /\ hist[1].op \in ops
Succeeded(ops) == Called(ops) /\ hist[1].threw = "none"

Appenders == {"PushBack", "PushBackMove", "EmplaceBack"}
Inserters == {"Emplace", "InsertMove"}

\* The sequences the operations are specified to give.
InsertAt(q, k, v) == SubSeq(q, 1, k) \o <<v>> \o SubSeq(q, k + 1, Len(q))
RemoveAt(q, k) == SubSeq(q, 1, k) \o SubSeq(q, k + 2, Len(q))
Resized(q, n) == [k \in 1..n |-> IF k <= Len(q) THEN q[k] ELSE DefaultVal]

\* What a call of an element operation is specified to leave in its Vector.
Expected(c) ==
    LET q == c.pre[c.i].elems
    IN CASE c.op \in Appenders -> Append(q, c.val)
         [] c.op \in Inserters -> InsertAt(q, c.pos, c.val)
         [] c.op = "Erase" -> RemoveAt(q, c.pos)
         [] c.op = "PopBack" -> SubSeq(q, 1, Len(q) - 1)
         [] c.op = "Resize" -> Resized(q, c.n)
         [] OTHER -> q

\* Vector i holds what it held before the call c.
SameAsBefore(c, i) ==
    /\ Size(i) = c.pre[i].size
    /\ Capacity(i) = c.pre[i].capacity
    /\ Elems(i) = c.pre[i].elems

\* C1: in every reachable state, for every Vector, Size() <= Capacity() and
\* the slots [0, Size()) hold exactly the live elements (each of these slots
\* holds an object, and no object lives anywhere else), in the order the
\* operations called so far give them.
C1_LiveElementsInSlots ==
    /\ \A i \in Vecs : vec[i].alive =>
          /\ Size(i) <= Capacity(i)
          /\ \A k \in 0..(Size(i) - 1) : Slot(heap, vec[i].data_.buffer_, k) # NoObj
    /\ StrayObjs = {}
    /\ Succeeded(Appenders \cup Inserters \cup {"Erase", "PopBack", "Resize", "Reserve"})
          => Elems(hist[1].i) = Expected(hist[1])

C3_NoLeakOnFailure ==
    (hist # <<>> /\ hist[1].threw # "none") =>
        /\ lost = hist[1].lost
        /\ ~bad
        /\ Orphans \subseteq hist[1].orphans
        /\ StrayObjs \subseteq hist[1].strays

\* C4: Insert/Emplace of v at index k of [e0..en-1] gives
\* [e0..e(k-1), v, ek..en-1], size n + 1, and returns the position k of the
\* Vector's buffer, with spare capacity and without.
C4_InsertAtPosition ==
    Succeeded(Inserters) =>
        LET c == hist[1]
        IN /\ Elems(c.i) = InsertAt(c.pre[c.i].elems, c.pos, c.val)
           /\ Size(c.i) = c.pre[c.i].size + 1
           /\ c.ret = [buffer_ |-> vec[c.i].data_.buffer_, offset |-> c.pos]

\* An insertion in front of three elements, not all equal, with spare capacity.
C4_Witness ==
    /\ Succeeded(Inserters) /\ hist[1].pos = 0
    /\ hist[1].pre[1].size = 3 /\ hist[1].pre[1].capacity > 3
    /\ hist[1].pre[1].elems[1] # hist[1].pre[1].elems[2]

\* C5: Erase(k), for k in [0, size), removes element k alone, keeps the others
\* in order, takes one off the size and leaves the capacity.
C5_EraseAtPosition ==
    Succeeded({"Erase"}) =>
        LET c == hist[1]
        IN /\ Elems(c.i) = RemoveAt(c.pre[c.i].elems, c.pos)
           /\ Size(c.i) = c.pre[c.i].size - 1
           /\ Capacity(c.i) = c.pre[c.i].capacity

\* The first of three elements, not all equal, is erased.
C5_Witness ==
    /\ Succeeded({"Erase"}) /\ hist[1].pos = 0
    /\ hist[1].pre[1].size = 3
    /\ hist[1].pre[1].elems[2] # hist[1].pre[1].elems[3]

\* The least power of two that is at least n; 0 for n = 0.
RECURSIVE PowerOfTwoFrom(_, _)
PowerOfTwoFrom(p, n) == IF p >= n THEN p ELSE PowerOfTwoFrom(2 * p, n)
PowerOfTwoAtLeast(n) == IF n = 0 THEN 0 ELSE PowerOfTwoFrom(1, n)

\* C6: in a run of PushBack on a default-constructed Vector the capacities
\* are 1, 2, 4, 8, ...: a PushBack on a full Vector sets the capacity to
\* max(1, 2 * size), and a PushBack with room left keeps capacity and buffer.
C6_GrowthDoubling ==
    /\ Capacity(1) = PowerOfTwoAtLeast(Size(1))
    /\ Called({"PushBack", "PushBackMove"}) =>
          LET c == hist[1]
              p == c.pre[1]
          IN /\ (p.size = p.capacity /\ c.threw = "none") =>
                   Capacity(1) = (IF 2 * p.size > 1 THEN 2 * p.size ELSE 1)
             /\ p.size < p.capacity =>
                   /\ Capacity(1) = p.capacity
                   /\ vec[1].data_.buffer_ = p.buffer

\* Five elements pushed: the capacity went 1, 2, 4, 4, 8.
C6_Witness ==
    /\ Size(1) = 5 /\ Capacity(1) = 8
    /\ Len(hist) = 3 /\ hist[1].pre[1].capacity = 4 /\ hist[2].pre[1].capacity = 4
    /\ hist[3].pre[1].capacity = 2

\* C7: after a move of Vector a into another Vector b (move construction or
\* move assignment), a has size 0 and capacity 0 and b has the size, capacity
\* and elements a had.
C7_MoveLeavesSourceEmpty ==
    (Succeeded({"MoveConstruct", "MoveAssign"}) /\ hist[1].i # hist[1].other) =>
        LET a == hist[1].other
            b == hist[1].i
            p == hist[1].pre[a]
        IN /\ Size(a) = 0 /\ Capacity(a) = 0
           /\ Size(b) = p.size /\ Capacity(b) = p.capacity /\ Elems(b) = p.elems

\* Two elements moved by assignment into a Vector that held one.
C7_Witness ==
    /\ Succeeded({"MoveAssign"}) /\ hist[1].i # hist[1].other
    /\ hist[1].pre[hist[1].other].size = 2
    /\ hist[1].pre[hist[1].i].size = 1

Copies == {"CopyConstruct", "CopyAssign"}
\* The operations called on one Vector alone.
OnOneVector == Appenders \cup Inserters \cup {"Erase", "PopBack", "Resize", "Reserve"}

\* C8: right after a copy (construction or assignment) the two Vectors have
\* the same size and elements, those of the source; and an operation called
\* afterwards on one of them, whether it succeeds or throws, leaves the size
\* and the elements of the other as they were.
C8_CopyIndependence ==
    /\ (Succeeded(Copies) /\ hist[1].i # hist[1].other) =>
          /\ Size(hist[1].i) = Size(hist[1].other)
          /\ Elems(hist[1].i) = Elems(hist[1].other)
          /\ Elems(hist[1].other) = hist[1].pre[hist[1].other].elems
    /\ Called(OnOneVector) =>
          \A y \in Vecs \ {hist[1].i} :
             /\ Size(y) = hist[1].pre[y].size
             /\ Elems(y) = hist[1].pre[y].elems
             /\ (/\ Len(hist) >= 2 /\ hist[2].op \in Copies /\ hist[2].threw = "none"
                 /\ {hist[2].i, hist[2].other} = {y, hist[1].i})
                   => Elems(y) = hist[2].pre[hist[2].other].elems

\* Vector 2 was copy-constructed from two elements of Vector 1, then the
\* first element of Vector 1 was erased.
C8_Witness ==
    /\ Len(hist) = 2 /\ hist[2].op = "CopyConstruct" /\ hist[2].threw = "none"
    /\ hist[2].i = 2 /\ hist[2].other = 1
    /\ Succeeded({"Erase"}) /\ hist[1].i = 1 /\ hist[1].pos = 0
    /\ Size(2) = 2 /\ Size(1) = 1

\* C9: Resize(n), Resize(m), Resize(n) with m < n leaves size n, the first m
\* elements those held before the shrink, the elements [m, n) of value T().
C9_ResizeRoundTrip ==
    (/\ Len(hist) = 3
     /\ \A k \in 1..3 : hist[k].op = "Resize" /\ hist[k].threw = "none" /\ hist[k].i = 1
     /\ hist[3].n = hist[1].n
     /\ hist[2].n < hist[1].n) =>
        LET n == hist[1].n
            m == hist[2].n
            held == hist[2].pre[1].elems
        IN /\ Size(1) = n
           /\ \A k \in 1..m : Elems(1)[k] = held[k]
           /\ \A k \in (m + 1)..n : Elems(1)[k] = DefaultVal

\* Resize(2), Resize(1), Resize(2) on two elements that are not T().
C9_Witness ==
    /\ Len(hist) = 3
    /\ \A k \in 1..3 : hist[k].op = "Resize" /\ hist[k].threw = "none"
    /\ hist[3].n = 2 /\ hist[2].n = 1 /\ hist[1].n = 2
    /\ hist[2].pre[1].elems[1] # DefaultVal /\ hist[2].pre[1].elems[2] # DefaultVal

\* C10: after Reserve(n) the capacity is at least n; with n <= Capacity()
\* before the call nothing changes (same buffer, same capacity, the same
\* blocks allocated, no throw);
\* size and elements are unchanged in both cases.
C10_Reserve ==
    Called({"Reserve"}) =>
        LET c == hist[1]
            p == c.pre[c.i]
        IN /\ c.threw = "none" => Capacity(c.i) >= c.n
           /\ c.n <= p.capacity =>
                 /\ c.threw = "none"
                 /\ Capacity(c.i) = p.capacity
                 /\ vec[c.i].data_.buffer_ = p.buffer
                 /\ Allocated = c.blocks
           /\ Size(c.i) = p.size
           /\ Elems(c.i) = p.elems

\* Reserve(3) moved two elements into a larger buffer.
C10_Witness ==
    /\ Succeeded({"Reserve"}) /\ hist[1].n = 3
    /\ hist[1].pre[1].capacity = 2 /\ hist[1].pre[1].size = 2
    /\ Capacity(1) = 3

\* The Vectors whose data_ references block b.
Owners(b) == {i \in Vecs : vec[i].alive /\ vec[i].data_.buffer_ = b}

\* C11: between operations every block that is allocated and not released is
\* the data_ of exactly one Vector (never of two, never of none), and after a
\* move or a Swap between two Vectors the source no longer references the
\* block it handed over.
C11_SingleOwner ==
    /\ \A b \in Allocated : Cardinality(Owners(b)) = 1
    /\ (Succeeded({"MoveConstruct", "MoveAssign", "Swap"}) /\ hist[1].i # hist[1].other) =>
          LET src == hist[1].other
              handed == hist[1].pre[src].buffer
          IN /\ vec[hist[1].i].data_.buffer_ = handed
             /\ handed # nullptr => vec[src].data_.buffer_ # handed

\* The operations that replace the whole of a Vector.
Replacers == {"CopyAssign", "MoveAssign", "MoveConstruct", "Swap"}

\* C12: no step takes capacity from a Vector, except a step of an assignment,
\* a move or a Swap: in particular Reserve, Resize, PushBack, EmplaceBack,
\* PopBack, Insert/Emplace and Erase, succeeding or failing, never do.
C12_CapacityNeverShrinks ==
    [][\A i \in Vecs :
          (/\ vec[i].alive /\ vec'[i].alive
           /\ vec'[i].data_.capacity_ < vec[i].data_.capacity_)
              => (hist' # <<>> /\ hist'[1].op \in Replacers)]_vars

\* Resize made the capacity larger, and PopBack then left it as it was.
C12_Witness ==
    /\ Len(hist) = 2
    /\ hist[2].op = "Resize" /\ hist[2].threw = "none"
    /\ hist[2].pre[1].capacity < hist[1].pre[1].capacity
    /\ Succeeded({"PopBack"})
    /\ Capacity(1) = hist[1].pre[1].capacity /\ Size(1) < Capacity(1)

\* The latest call is an Insert/Emplace on a full Vector in which the
\* transfer of an element into the new buffer threw (the new element itself,
\* the first throwing operation of the call, was constructed).
EmplaceTransferFailed ==
    /\ Called(Inserters) /\ hist[1].threw = "ctor" /\ hist[1].f >= 2
    /\ hist[1].pre[hist[1].i].size = hist[1].pre[hist[1].i].capacity

\* C13: when, in Insert/Emplace on a full Vector, the transfer of the elements
\* before the position or of those after it fails, every object constructed
\* in the new buffer (the new element and the transferred ones) has been
\* destroyed and the buffer released, and the Vector has the buffer, the
\* size, the capacity and the elements it had before the call.
C13_EmplaceGrowthRollback ==
    EmplaceTransferFailed =>
        /\ lost = hist[1].lost
        /\ ~bad
        /\ Allocated = hist[1].blocks
        /\ vec[hist[1].i].data_.buffer_ = hist[1].pre[hist[1].i].buffer
        /\ SameAsBefore(hist[1], hist[1].i)

\* The latest call took the path that replaces the buffer by a larger one:
\* Reserve beyond the capacity, or an append or insertion on a full Vector.
GrowthCall ==
    \/ Called({"Reserve"}) /\ hist[1].n > hist[1].pre[hist[1].i].capacity
    \/ /\ Called(Appenders \cup Inserters)
       /\ hist[1].pre[hist[1].i].size = hist[1].pre[hist[1].i].capacity

\* The elements a call places into the new buffer.
Placements(c) == c.pre[c.i].size + (IF c.op = "Reserve" THEN 0 ELSE 1)

ShiftCall ==
    /\ Called(Inserters)
    /\ hist[1].pre[hist[1].i].size < hist[1].pre[hist[1].i].capacity
    /\ hist[1].pos < hist[1].pre[hist[1].i].size

\* Each of the first n slots of block b holds an object.
NoGap(h, b, n) == \A k \in 0..(n - 1) : Slot(h, b, k) # NoObj

\* The slots [0, size) stay objects through the steps of an insertion at pos:
\* after the last element is moved into slot size, after every single move
\* of the backward shift, and after the assignment of the temporary.
NoGapStepByStep(i, pos, v) ==
    LET b == vec[i].data_.buffer_
        size == Size(i)
        s2 == MoveConstructAt(Start(0), b, size, b, size - 1)
    IN /\ NoGap(s2.heap, b, size + 1)
       /\ \A j \in pos..(size - 1) :
             NoGap(move_backward(s2, b, j, size - 1, size).heap, b, size + 1)
       /\ NoGap(EmplaceShift(Start(0), i, pos, v, TRUE).heap, b, size + 1)

\* C15: in Insert/Emplace before the end of a Vector with room left, every
\* slot of [0, size) holds an object after each step (the temporary, the last
\* element moved into slot size, each move of the backward shift, the
\* assignment of the temporary), so a call that fails at any of these steps
\* leaves no slot of [0, size) without an object.
C15_NoGapInShift ==
    /\ ShiftCall => /\ NoGap(heap, vec[hist[1].i].data_.buffer_, hist[1].pre[hist[1].i].size)
                    /\ ~bad
    /\ \A i \in Mutated :
          (vec[i].alive /\ Size(i) < Capacity(i) /\ NoGap(heap, vec[i].data_.buffer_, Size(i))) =>
              \A pos \in 0..(Size(i) - 1) : NoGapStepByStep(i, pos, MaxVal)

\* An insertion in front of two elements failed in the backward shift.
C15_Witness ==
    /\ ShiftCall /\ hist[1].threw = "assign" /\ hist[1].f = 3
    /\ hist[1].pos = 0 /\ hist[1].pre[1].size = 2

\* C16: after a copy assignment a = b between two Vectors that did not throw,
\* a has the size and the elements of b, and b is as before.  With b.size
\* above a's capacity a has a new buffer of capacity b.size; otherwise a keeps
\* its buffer and capacity, and the slots of a tail that b does not reach
\* hold no object any more.
C16_CopyAssign ==
    (Succeeded({"CopyAssign"}) /\ hist[1].i # hist[1].other) =>
        LET c == hist[1]
            a == c.i
            b == c.other
            pa == c.pre[a]
            pb == c.pre[b]
        IN /\ Size(a) = pb.size /\ Elems(a) = pb.elems
           /\ SameAsBefore(c, b) /\ vec[b].data_.buffer_ = pb.buffer
           /\ pb.size > pa.capacity =>
                 /\ Capacity(a) = pb.size
                 /\ vec[a].data_.buffer_ # pa.buffer
                 /\ pa.buffer \notin Allocated
           /\ pb.size <= pa.capacity =>
                 /\ Capacity(a) = pa.capacity
                 /\ vec[a].data_.buffer_ = pa.buffer
                 /\ \A k \in pb.size..(pa.size - 1) : Slot(heap, pa.buffer, k) = NoObj

\* Two elements assigned to a Vector that held one other element and had room
\* for two: one element assigned over, one copy-constructed.
C16_Witness ==
    /\ Succeeded({"CopyAssign"}) /\ hist[1].i # hist[1].other
    /\ hist[1].pre[hist[1].i].size = 1 /\ hist[1].pre[hist[1].other].size = 2
    /\ hist[1].pre[hist[1].i].capacity >= 2
    /\ hist[1].pre[hist[1].i].elems[1] # hist[1].pre[hist[1].other].elems[1]

\* The throwing operations a Resize runs before it constructs the first new
\* element: the copies of the transfer, when the buffer is replaced and T is
\* copied.
TransferThrows(c) ==
    IF c.n > c.pre[c.i].capacity /\ ~nothrowMove THEN c.pre[c.i].size ELSE 0

\* The latest call is a Resize to a larger size in which the construction of
\* a new element threw.
TailFailed ==
    /\ Called({"Resize"}) /\ hist[1].threw = "ctor"
    /\ hist[1].n > hist[1].pre[hist[1].i].size
    /\ hist[1].f > TransferThrows(hist[1])

\* C17: when the default construction of a new element throws in Resize(n)
\* with n > size, the new elements built by the call are destroyed again (no
\* object is left beyond the size that was not there before) and the size and
\* the elements [0, size) are what they were.
C17_ResizeRollback ==
    TailFailed =>
        LET c == hist[1]
        IN /\ Size(c.i) = c.pre[c.i].size
           /\ Elems(c.i) = c.pre[c.i].elems
           /\ StrayObjs \subseteq c.strays
           /\ ~bad

\* Resize of one element to three or more beyond the capacity: the element
\* was copied to the new buffer, and the second new element threw.
C17_Witness ==
    /\ TailFailed /\ ~nothrowMove
    /\ hist[1].pre[1].size = 1 /\ hist[1].n > hist[1].pre[1].capacity
    /\ hist[1].f = 3 /\ Capacity(1) = hist[1].n

\* C18: when the construction of an element, whichever it is, throws in
\* Vector(n) or in the copy constructor, the elements built so far are
\* destroyed, the buffer is released and no Vector comes to exist; when
\* nothing throws, Vector(n) has size n and capacity n with n elements T(),
\* and a copy has the size and the elements of its source and a capacity
\* equal to that size.  The source of a copy is left as it was.
C18_ConstructorRollback ==
    Called({"VectorN", "CopyConstruct"}) =>
        LET c == hist[1]
        IN /\ c.threw # "none" =>
                 /\ ~vec[c.i].alive
                 /\ lost = c.lost /\ ~bad
                 /\ Allocated = c.blocks
                 /\ StrayObjs \subseteq c.strays
           /\ (c.threw = "none" /\ c.op = "VectorN") =>
                 /\ vec[c.i].alive
                 /\ Size(c.i) = c.n /\ Capacity(c.i) = c.n
                 /\ Elems(c.i) = [k \in 1..c.n |-> DefaultVal]
           /\ (c.threw = "none" /\ c.op = "CopyConstruct") =>
                 /\ vec[c.i].alive
                 /\ Size(c.i) = c.pre[c.other].size
                 /\ Capacity(c.i) = c.pre[c.other].size
                 /\ Elems(c.i) = c.pre[c.other].elems
           /\ c.op = "CopyConstruct" => SameAsBefore(c, c.other)

\* Vector(n) with n of three or more threw at its third element.
C18_Witness ==
    /\ Called({"VectorN"}) /\ hist[1].threw = "ctor"
    /\ hist[1].n >= 3 /\ hist[1].f = 3

\* Every call made so far returned without a throw (the calls of a lifetime
\* are all in hist).
AllSucceeded == \A k \in 1..Len(hist) : hist[k].threw = "none"

\* C19: once every Vector has been destroyed, after calls that all succeeded
\* (a move assignment onto a Vector holding elements among them), no block is
\* still allocated, none was released twice, and every object was destroyed
\* exactly once: none went with its storage, none was destroyed twice.
C19_AllReleasedAtEnd ==
    (AllSucceeded /\ \A i \in Vecs : ~vec[i].alive) =>
        /\ Allocated = {}
        /\ lost = 0
        /\ ~bad

\* C20: a PushBack(const T&) or Insert(pos, const T&) whose value is a
\* reference to element j of the same Vector adds, at the end or at pos, an
\* element equal to the value element j had before the call, on the path
\* that replaces the buffer and on the path that keeps it; the other
\* elements keep their values and their order, and no slot is read that
\* holds no object.
C20_SelfReference ==
    Succeeded({"PushBackRef", "InsertRef"}) =>
        LET c == hist[1]
            q == c.pre[c.i].elems
        IN /\ Elems(c.i) = InsertAt(q, c.pos, q[c.n + 1])
           /\ Size(c.i) = Len(q) + 1
           /\ ~bad

\* The last of two different elements of a full Vector, whose elements are
\* moved to the new buffer, inserted in front by reference.
C20_Witness ==
    /\ Succeeded({"InsertRef"}) /\ nothrowMove
    /\ hist[1].pre[1].size = 2 /\ hist[1].pre[1].capacity = 2
    /\ hist[1].pos = 0 /\ hist[1].n = 1
    /\ hist[1].pre[1].elems[1] # hist[1].pre[1].elems[2]

====
